---- MODULE Spec2Model ----
(***************************************************************************)
(* Model of the EMG acquisition firmware: setup() and loop() of the two    *)
(* sketches of the repository,                                             *)
(*   - the HTTP (connection-oriented) sketch, 03 firmware/adafruitM0/      *)
(*     hostngrok.ino, and                                                  *)
(*   - the UDP (datagram) sketch printed in README.md, lines 90-175.       *)
(* The variable variant says which of the two sketches runs.               *)
(***************************************************************************)
EXTENDS Integers, Sequences, FiniteSets, TLC

(***************************************************************************)
(* Bounds.  The sketch values are 256 samples per packet, 40 us between    *)
(* samples and a micros() counter of 2^32 values; the model keeps the names and    *)
(* scales the values so that whole cycles and counter wraps are explored.  *)
(***************************************************************************)
\* const int SAMPLES_PER_PACKET = 256 (hostngrok.ino:17, README.md:105), scaled
SAMPLES_PER_PACKET == 2
\* const unsigned long SAMPLE_INTERVAL_US = 40 (hostngrok.ino:16, README.md:104), scaled
SAMPLE_INTERVAL_US == 3
\* number of values of unsigned long, the type of micros() and previousMicros
\* (2^32 in the sketch), scaled: the counter wraps from Wrap - 1 to 0
Wrap == 8

\* Largest value analogRead returns with ADC_CTRLB_RESSEL_10BIT
ADC_MAX == 1023

VARIABLES
    variant,         \* "http" (hostngrok.ino) or "udp" (README.md sketch)
    shield,          \* WiFi.status() # WL_NO_SHIELD: the radio is present
    pc,              \* position of the single thread of control
    status,          \* int status
    clock,           \* the hardware microsecond counter micros() reads
    previousMicros,  \* unsigned long previousMicros
    i,               \* int i of the sampling for-loop
    val_signal,      \* int val_signal = analogRead(A1)
    val_ref,         \* int val_ref = analogRead(A2)
    packetBuffer,    \* uint8_t packetBuffer[SAMPLES_PER_PACKET * 2]
    connOpen,        \* the WiFiClient holds an open connection
    wire,            \* what was written on the connection opened last
    serial,          \* Serial lines printed in the current loop()/setup iteration
    sentBody,        \* bytes handed to Udp.write / client.write last
    txResult,        \* outcome of the transport calls of the current cycle
    lastResult,      \* outcome of the transport calls of the previous cycle
    \* history variables, written by the actions and read only by properties
    cycle,           \* differentials sampled since loop() was entered
    sinceAttempt,    \* samples stored in packetBuffer since the last attempt
    attemptSamples,  \* value of sinceAttempt when the last attempt started
    connectCalls,    \* client.connect calls since loop() was entered
    sendCalls,       \* Udp.write calls since loop() was entered
    connPackets,     \* bodies written on the connection opened last
    sinceSample,     \* real microseconds since the last sample timestamp (saturating)
    stamps,          \* sample timestamps recorded so far, counted up to 2
    lastGap,         \* real microseconds between the last two sample timestamps
    ticks,           \* waits completed since loop() was entered
    begun,           \* WiFi.begin has been called
    written,         \* packetBuffer indices stored to since loop() was entered
    sinceStart,      \* real microseconds since loop() read its first micros(),
                     \* counted up to startCap
    startCap         \* how far sinceStart counts; fixed by the initial state

vars == <<variant, shield, pc, status, clock, previousMicros, i, val_signal,
          val_ref, packetBuffer, connOpen, wire, serial, sentBody, txResult,
          lastResult, cycle, sinceAttempt, attemptSamples, connectCalls,
          sendCalls, connPackets, sinceSample, stamps, lastGap, ticks,
          begun, written, sinceStart, startCap>>

----------------------------------------------------------------------------
(* Integer types of the sketch *)

\* micros() after d more microseconds of real time: the counter wraps
ClockAfter(c, d) == (c + d) % Wrap

\* unsigned long subtraction: micros() - previousMicros
Elapsed(now, prev) == (now - prev + Wrap) % Wrap

\* while (micros() - previousMicros < SAMPLE_INTERVAL_US);  the loop condition
TooEarlyDeadline(now, prev) == now < (prev + SAMPLE_INTERVAL_US) % Wrap
TooEarly(now, prev) == Elapsed(now, prev) < SAMPLE_INTERVAL_US

\* int16_t differential = val_signal - val_ref;  (int to int16_t conversion)
Differential(s, r) == ((s - r + 32768) % 65536) - 32768

\* uint16_t binaryValue = (uint16_t)differential;
BinaryValue(d) == (d + 65536) % 65536

\* binaryValue & 0xFF
LowByte(b) == b % 256
\* (binaryValue >> 8) & 0xFF
HighByteNoShift(b) == b % 256
HighByte(b) == (b \div 256) % 256

\* sizeof packetBuffer
BufferSize == SAMPLES_PER_PACKET * 2

\* the first len bytes of the buffer, as write(packetBuffer, len) reads them
BufferBytes(buf, len) == [k \in 1..len |-> buf[k - 1]]

----------------------------------------------------------------------------
(* Inputs *)

\* real microseconds between two reads of micros(): every residue of the
\* counter, below and above the sample interval
Advances == 0..(Wrap + SAMPLE_INTERVAL_US - 1)

\* (analogRead(A1), analogRead(A2)) pairs the main specification explores
ReadingPairs == {<<600, 500>>, <<500, 500>>, <<300, 500>>}

\* every value analogRead can return
ADCRange == 0..ADC_MAX

\* values of sinceStart: real time, counted up to cap
UpTo(x, cap) == IF x > cap THEN cap ELSE x

\* values of sinceSample and lastGap: real time, counted up to the interval
Saturate(x) == IF x > SAMPLE_INTERVAL_US THEN SAMPLE_INTERVAL_US ELSE x

----------------------------------------------------------------------------
(* What the HTTP sketch writes on the connection *)

Line(text) == [tag |-> text, len |-> 0, data |-> <<>>]
LengthLine(n) == [tag |-> "Content-Length: ", len |-> n, data |-> <<>>]
Body(bytes) == [tag |-> "body", len |-> Len(bytes), data |-> bytes]

\* client.println(SAMPLES_PER_PACKET * 2);  the Content-Length value
ContentLengthInSamples == SAMPLES_PER_PACKET
ContentLength == SAMPLES_PER_PACKET * 2

\* client.print("POST ") ... client.println();  the header block, in order
RequestHeaders ==
    << Line("POST /api/data HTTP/1.1"),
       Line("Host: change-me.ngrok.io"),
       Line("Content-Type: application/octet-stream"),
       LengthLine(ContentLength),
       Line("Connection: close"),
       Line("") >>

----------------------------------------------------------------------------
(* setup() *)

Init ==
    /\ variant \in {"http", "udp"}
    /\ shield \in BOOLEAN
    /\ pc = "setup"
    /\ status = "WL_IDLE_STATUS"
    /\ clock = 0
    /\ previousMicros = 0
    /\ i = 0
    /\ val_signal = 0
    /\ val_ref = 0
    /\ packetBuffer = [k \in 0..(BufferSize - 1) |-> 0]
    /\ connOpen = FALSE
    /\ wire = <<>>
    /\ serial = <<>>
    /\ sentBody = <<>>
    /\ txResult = "none"
    /\ lastResult = "none"
    /\ cycle = <<>>
    /\ sinceAttempt = 0
    /\ attemptSamples = 0
    /\ connectCalls = 0
    /\ sendCalls = 0
    /\ connPackets = 0
    /\ sinceSample = 0
    /\ stamps = 0
    /\ lastGap = 0
    /\ ticks = 0
    /\ begun = FALSE
    /\ written = {}
    /\ sinceStart = 0
    /\ startCap = 0

\* where control goes when the shield is absent: while (true);
NoShieldFallsThrough == "wifi"
NoShieldTarget == "halted"

\* if (WiFi.status() == WL_NO_SHIELD) { while (true); }
SetupNoShield ==
    /\ pc = "setup"
    /\ ~shield
    /\ pc' = NoShieldTarget
    /\ UNCHANGED <<variant, shield, status, clock, previousMicros, i,
                   val_signal, val_ref, packetBuffer, connOpen, wire, serial,
                   sentBody, txResult, lastResult, cycle, sinceAttempt,
                   attemptSamples, connectCalls, sendCalls, connPackets,
                   sinceSample, stamps, lastGap, ticks, begun, written,
                   sinceStart, startCap>>

SetupShield ==
    /\ pc = "setup"
    /\ shield
    /\ pc' = "wifi"
    /\ UNCHANGED <<variant, shield, status, clock, previousMicros, i,
                   val_signal, val_ref, packetBuffer, connOpen, wire, serial,
                   sentBody, txResult, lastResult, cycle, sinceAttempt,
                   attemptSamples, connectCalls, sendCalls, connPackets,
                   sinceSample, stamps, lastGap, ticks, begun, written,
                   sinceStart, startCap>>

\* while (true);
HaltSpin ==
    /\ pc = "halted"
    /\ UNCHANGED vars

\* values WiFi.begin returns
WifiResults == {"WL_CONNECTED", "WL_CONNECT_FAILED", "WL_IDLE_STATUS"}

\* while (status != WL_CONNECTED)  the loop condition
StillAssociatingIdleOnly(st) == st = "WL_IDLE_STATUS"
StillAssociating(st) == st # "WL_CONNECTED"

\* while (status != WL_CONNECTED) { status = WiFi.begin(ssid, pass); delay(500); }
WifiAttempt(res) ==
    /\ pc = "wifi"
    /\ StillAssociating(status)
    /\ status' = res
    /\ begun' = TRUE
    /\ serial' = IF variant = "http"
                 THEN <<"Attempting to connect to SSID: ", "testwifi">>
                 ELSE serial
    /\ UNCHANGED <<variant, shield, pc, clock, previousMicros, i, val_signal,
                   val_ref, packetBuffer, connOpen, wire, sentBody, txResult,
                   lastResult, cycle, sinceAttempt, attemptSamples,
                   connectCalls, sendCalls, connPackets, sinceSample, stamps,
                   lastGap, ticks, written, sinceStart, startCap>>

\* the while loop is left; Serial.println("Connected to WiFi") / Udp.begin
WifiConnected ==
    /\ pc = "wifi"
    /\ ~StillAssociating(status)
    /\ pc' = "loop"
    /\ serial' = IF variant = "http" THEN <<"Connected to WiFi">> ELSE serial
    /\ UNCHANGED <<variant, shield, status, clock, previousMicros, i,
                   val_signal, val_ref, packetBuffer, connOpen, wire, sentBody,
                   txResult, lastResult, cycle, sinceAttempt, attemptSamples,
                   connectCalls, sendCalls, connPackets, sinceSample, stamps,
                   lastGap, ticks, begun, written, sinceStart, startCap>>

----------------------------------------------------------------------------
(* loop(): sampling phase *)

\* for (...; i < SAMPLES_PER_PACKET; ...)  the loop condition
MoreSamplesOffByOne(n) == n < SAMPLES_PER_PACKET - 1
MoreSamplesInclusive(n) == n <= SAMPLES_PER_PACKET
MoreSamples(n) == n < SAMPLES_PER_PACKET

\* unsigned long previousMicros = micros();  int i = 0;
LoopStart(d) ==
    /\ pc = "loop"
    /\ clock' = ClockAfter(clock, d)
    /\ previousMicros' = clock'
    /\ i' = 0
    /\ pc' = IF MoreSamples(0) THEN "wait" ELSE "tx"
    /\ serial' = <<>>
    /\ cycle' = <<>>
    /\ connectCalls' = 0
    /\ sendCalls' = 0
    /\ ticks' = 0
    /\ written' = {}
    /\ lastResult' = txResult
    /\ txResult' = "none"
    /\ sinceSample' = Saturate(sinceSample + d)
    /\ sinceStart' = 0
    /\ UNCHANGED <<variant, shield, status, val_signal, val_ref, packetBuffer,
                   connOpen, wire, sentBody, sinceAttempt, attemptSamples,
                   connPackets, stamps, lastGap, begun, startCap>>

\* while (micros() - previousMicros < SAMPLE_INTERVAL_US);  condition true
WaitSpin(d) ==
    /\ pc = "wait"
    /\ clock' = ClockAfter(clock, d)
    /\ TooEarly(clock', previousMicros)
    /\ sinceSample' = Saturate(sinceSample + d)
    /\ sinceStart' = UpTo(sinceStart + d, startCap)
    /\ UNCHANGED <<variant, shield, pc, status, previousMicros, i, val_signal,
                   val_ref, packetBuffer, connOpen, wire, serial, sentBody,
                   txResult, lastResult, cycle, sinceAttempt, attemptSamples,
                   connectCalls, sendCalls, connPackets, stamps, lastGap,
                   ticks, begun, written, startCap>>

\* while (micros() - previousMicros < SAMPLE_INTERVAL_US);  condition false
WaitDone(d) ==
    /\ pc = "wait"
    /\ clock' = ClockAfter(clock, d)
    /\ ~TooEarly(clock', previousMicros)
    /\ pc' = "stamp"
    /\ ticks' = ticks + 1
    /\ sinceSample' = Saturate(sinceSample + d)
    /\ sinceStart' = UpTo(sinceStart + d, startCap)
    /\ UNCHANGED <<variant, shield, status, previousMicros, i, val_signal,
                   val_ref, packetBuffer, connOpen, wire, serial, sentBody,
                   txResult, lastResult, cycle, sinceAttempt, attemptSamples,
                   connectCalls, sendCalls, connPackets, stamps, lastGap,
                   begun, written, startCap>>

\* the indices of packetBuffer[i*2] and packetBuffer[i*2+1]
WriteIndices(n) == {n * 2, n * 2 + 1}

\* packetBuffer[i*2] = ...; packetBuffer[i*2+1] = ...;
StoreLowOnly(buf, n, s, r) ==
    [buf EXCEPT ![n * 2] = LowByte(BinaryValue(Differential(s, r)))]
StoreSwapped(buf, n, s, r) ==
    [buf EXCEPT ![n * 2] = HighByte(BinaryValue(Differential(s, r))),
                ![n * 2 + 1] = LowByte(BinaryValue(Differential(s, r)))]
StoreSample(buf, n, s, r) ==
    [buf EXCEPT ![n * 2] = LowByte(BinaryValue(Differential(s, r))),
                ![n * 2 + 1] = HighByte(BinaryValue(Differential(s, r)))]

\* previousMicros = micros();  the baseline the next wait measures from
BaselineFixedIncrement(now, prev) == (prev + SAMPLE_INTERVAL_US) % Wrap
NextBaseline(now, prev) == now

\* previousMicros = micros(); the two analogReads; the two buffer stores; i++
TakeSample(d, s, r) ==
    /\ pc = "stamp"
    /\ clock' = ClockAfter(clock, d)
    /\ previousMicros' = NextBaseline(clock', previousMicros)
    /\ val_signal' = s
    /\ val_ref' = r
    /\ packetBuffer' = StoreSample(packetBuffer, i, s, r)
    /\ written' = written \cup WriteIndices(i)
    /\ i' = i + 1
    /\ pc' = IF MoreSamples(i + 1) THEN "wait" ELSE "tx"
    /\ cycle' = Append(cycle, s - r)
    /\ sinceAttempt' = sinceAttempt + 1
    /\ lastGap' = Saturate(sinceSample + d)
    /\ sinceSample' = 0
    /\ sinceStart' = UpTo(sinceStart + d, startCap)
    /\ stamps' = IF stamps = 0 THEN 1 ELSE 2
    /\ UNCHANGED <<variant, shield, status, connOpen, wire, serial, sentBody,
                   txResult, lastResult, attemptSamples, connectCalls,
                   sendCalls, connPackets, ticks, begun, startCap>>

----------------------------------------------------------------------------
(* loop(): transmission phase, HTTP sketch (hostngrok.ino) *)

\* outcomes of a transport call: it worked or it failed
Outcomes == BOOLEAN

\* a failure of any transport call of the cycle marks the cycle failed
Result(prev, ok) == IF ok /\ prev # "fail" THEN "ok" ELSE "fail"

\* if (client.connect(server, port)) { Serial.println("Connected to server");
ConnectOkTarget == "http_headers"
HttpConnectOk ==
    /\ pc = "tx"
    /\ variant = "http"
    /\ connOpen' = TRUE
    /\ wire' = <<>>
    /\ connPackets' = 0
    /\ serial' = serial \o <<"Starting connection to server...",
                             "Connected to server">>
    /\ connectCalls' = connectCalls + 1
    /\ attemptSamples' = sinceAttempt
    /\ sinceAttempt' = 0
    /\ txResult' = "ok"
    /\ pc' = ConnectOkTarget
    /\ UNCHANGED <<variant, shield, status, clock, previousMicros, i,
                   val_signal, val_ref, packetBuffer, sentBody, lastResult,
                   cycle, sendCalls, sinceSample, stamps, lastGap, ticks,
                   begun, written, sinceStart, startCap>>

\* where control goes after the else branch: loop() returns
ConnectFailRetry == "tx"
ConnectFailHalts == "halted"
ConnectFailTarget == "loop"

\* } else { Serial.println("Connection failed"); }
HttpConnectFail ==
    /\ pc = "tx"
    /\ variant = "http"
    /\ serial' = serial \o <<"Starting connection to server...",
                             "Connection failed">>
    /\ connectCalls' = connectCalls + 1
    /\ attemptSamples' = sinceAttempt
    /\ sinceAttempt' = 0
    /\ txResult' = "noconn"
    /\ pc' = ConnectFailTarget
    /\ UNCHANGED <<variant, shield, status, clock, previousMicros, i,
                   val_signal, val_ref, packetBuffer, connOpen, wire, sentBody,
                   lastResult, cycle, sendCalls, connPackets, sinceSample,
                   stamps, lastGap, ticks, begun, written, sinceStart, startCap>>

\* client.print("POST "); ... client.println();  lines 91-100
HttpHeaders ==
    /\ pc = "http_headers"
    /\ wire' = wire \o RequestHeaders
    /\ pc' = "http_body"
    /\ UNCHANGED <<variant, shield, status, clock, previousMicros, i,
                   val_signal, val_ref, packetBuffer, connOpen, serial,
                   sentBody, txResult, lastResult, cycle, sinceAttempt,
                   attemptSamples, connectCalls, sendCalls, connPackets,
                   sinceSample, stamps, lastGap, ticks, begun, written,
                   sinceStart, startCap>>

\* the length argument of client.write / Udp.write
WriteLength == SAMPLES_PER_PACKET * 2

\* client.write(packetBuffer, SAMPLES_PER_PACKET * 2);  its result is dropped
HttpBody(ok) ==
    /\ pc = "http_body"
    /\ sentBody' = BufferBytes(packetBuffer, WriteLength)
    /\ wire' = Append(wire, Body(sentBody'))
    /\ connPackets' = connPackets + 1
    /\ txResult' = Result(txResult, ok)
    /\ pc' = "http_stop"
    /\ UNCHANGED <<variant, shield, status, clock, previousMicros, i,
                   val_signal, val_ref, packetBuffer, connOpen, serial,
                   lastResult, cycle, sinceAttempt, attemptSamples,
                   connectCalls, sendCalls, sinceSample, stamps, lastGap,
                   ticks, begun, written, sinceStart, startCap>>

\* client.stop(): the connection is open afterwards or not
StopKeepsOpen == TRUE
StopLeavesOpen == FALSE

\* client.stop(); Serial.println("Data sent & disconnected");
HttpStopClearing ==
    /\ pc = "http_stop"
    /\ connOpen' = FALSE
    /\ packetBuffer' = [k \in 0..(BufferSize - 1) |-> 0]
    /\ serial' = Append(serial, "Data sent & disconnected")
    /\ pc' = "loop"
    /\ UNCHANGED <<variant, shield, status, clock, previousMicros, i,
                   val_signal, val_ref, wire, sentBody, txResult, lastResult,
                   cycle, sinceAttempt, attemptSamples, connectCalls,
                   sendCalls, connPackets, sinceSample, stamps, lastGap, ticks,
                   begun, written, sinceStart, startCap>>
HttpStop ==
    /\ pc = "http_stop"
    /\ connOpen' = StopLeavesOpen
    /\ serial' = Append(serial, "Data sent & disconnected")
    /\ pc' = "loop"
    /\ UNCHANGED <<variant, shield, status, clock, previousMicros, i,
                   val_signal, val_ref, packetBuffer, wire, sentBody, txResult,
                   lastResult, cycle, sinceAttempt, attemptSamples,
                   connectCalls, sendCalls, connPackets, sinceSample, stamps,
                   lastGap, ticks, begun, written, sinceStart, startCap>>

----------------------------------------------------------------------------
(* loop(): transmission phase, UDP sketch (README.md) *)

\* Udp.beginPacket(remoteIp, remotePort);  its result is dropped
UdpBeginPacket(ok) ==
    /\ pc = "tx"
    /\ variant = "udp"
    /\ txResult' = Result(txResult, ok)
    /\ pc' = "udp_write"
    /\ UNCHANGED <<variant, shield, status, clock, previousMicros, i,
                   val_signal, val_ref, packetBuffer, connOpen, wire, serial,
                   sentBody, lastResult, cycle, sinceAttempt, attemptSamples,
                   connectCalls, sendCalls, connPackets, sinceSample, stamps,
                   lastGap, ticks, begun, written, sinceStart, startCap>>

\* Udp.write(packetBuffer, SAMPLES_PER_PACKET * 2);  its result is dropped
UdpWrite(ok) ==
    /\ pc = "udp_write"
    /\ sentBody' = BufferBytes(packetBuffer, WriteLength)
    /\ sendCalls' = sendCalls + 1
    /\ attemptSamples' = sinceAttempt
    /\ sinceAttempt' = 0
    /\ txResult' = Result(txResult, ok)
    /\ pc' = "udp_end"
    /\ UNCHANGED <<variant, shield, status, clock, previousMicros, i,
                   val_signal, val_ref, packetBuffer, connOpen, wire, serial,
                   lastResult, cycle, connectCalls, connPackets, sinceSample,
                   stamps, lastGap, ticks, begun, written, sinceStart, startCap>>

\* where control goes after Udp.endPacket(): loop() returns, whatever it returned
UdpEndRetryOnFailure(res) == IF res = "fail" THEN "tx" ELSE "loop"
UdpEndTarget(res) == "loop"

\* Udp.endPacket();  its result is dropped
UdpEndPacket(ok) ==
    /\ pc = "udp_end"
    /\ txResult' = Result(txResult, ok)
    /\ pc' = UdpEndTarget(txResult')
    /\ UNCHANGED <<variant, shield, status, clock, previousMicros, i,
                   val_signal, val_ref, packetBuffer, connOpen, wire, serial,
                   sentBody, lastResult, cycle, sinceAttempt, attemptSamples,
                   connectCalls, sendCalls, connPackets, sinceSample, stamps,
                   lastGap, ticks, begun, written, sinceStart, startCap>>

----------------------------------------------------------------------------
(* The firmware: setup() once, then loop() forever *)

Next ==
    \/ SetupNoShield
    \/ SetupShield
    \/ HaltSpin
    \/ \E res \in WifiResults : WifiAttempt(res)
    \/ WifiConnected
    \/ \E d \in Advances : LoopStart(d)
    \/ \E d \in Advances : WaitSpin(d)
    \/ \E d \in Advances : WaitDone(d)
    \/ \E d \in Advances, rd \in ReadingPairs : TakeSample(d, rd[1], rd[2])
    \/ HttpConnectOk
    \/ HttpConnectFail
    \/ HttpHeaders
    \/ \E ok \in Outcomes : HttpBody(ok)
    \/ HttpStop
    \/ \E ok \in Outcomes : UdpBeginPacket(ok)
    \/ \E ok \in Outcomes : UdpWrite(ok)
    \/ \E ok \in Outcomes : UdpEndPacket(ok)

Spec == Init /\ [][Next]_vars

\* readings of the specification that checks progress
FairReadings == {<<600, 500>>, <<300, 500>>}

\* the firmware over those readings
NextFair ==
    \/ SetupNoShield
    \/ SetupShield
    \/ HaltSpin
    \/ \E res \in WifiResults : WifiAttempt(res)
    \/ WifiConnected
    \/ \E d \in Advances : LoopStart(d)
    \/ \E d \in Advances : WaitSpin(d)
    \/ \E d \in Advances : WaitDone(d)
    \/ \E d \in Advances, rd \in FairReadings : TakeSample(d, rd[1], rd[2])
    \/ HttpConnectOk
    \/ HttpConnectFail
    \/ HttpHeaders
    \/ \E ok \in Outcomes : HttpBody(ok)
    \/ HttpStop
    \/ \E ok \in Outcomes : UdpBeginPacket(ok)
    \/ \E ok \in Outcomes : UdpWrite(ok)
    \/ \E ok \in Outcomes : UdpEndPacket(ok)

\* the steps of loop() other than one more turn of the busy-wait
LoopProgress ==
    \/ \E d \in Advances : LoopStart(d)
    \/ \E d \in Advances : WaitDone(d)
    \/ \E d \in Advances, rd \in FairReadings : TakeSample(d, rd[1], rd[2])
    \/ HttpConnectOk
    \/ HttpConnectFail
    \/ HttpHeaders
    \/ \E ok \in Outcomes : HttpBody(ok)
    \/ HttpStop
    \/ \E ok \in Outcomes : UdpBeginPacket(ok)
    \/ \E ok \in Outcomes : UdpWrite(ok)
    \/ \E ok \in Outcomes : UdpEndPacket(ok)

\* the single thread keeps running: every transport call returns and every
\* busy-wait sees its interval elapse
FairSpec == Init /\ [][NextFair]_vars /\ WF_vars(LoopProgress)

\* setup() too keeps running: when the association loop can be left, it is
FairStartSpec == FairSpec /\ WF_vars(WifiConnected)

----------------------------------------------------------------------------
(* The same sketch with the time since loop() was entered counted in full *)

\* power-up, sinceStart counting up to a whole cycle of intervals
InitTiming ==
    /\ variant \in {"http", "udp"}
    /\ shield \in BOOLEAN
    /\ pc = "setup"
    /\ status = "WL_IDLE_STATUS"
    /\ clock = 0
    /\ previousMicros = 0
    /\ i = 0
    /\ val_signal = 0
    /\ val_ref = 0
    /\ packetBuffer = [k \in 0..(BufferSize - 1) |-> 0]
    /\ connOpen = FALSE
    /\ wire = <<>>
    /\ serial = <<>>
    /\ sentBody = <<>>
    /\ txResult = "none"
    /\ lastResult = "none"
    /\ cycle = <<>>
    /\ sinceAttempt = 0
    /\ attemptSamples = 0
    /\ connectCalls = 0
    /\ sendCalls = 0
    /\ connPackets = 0
    /\ sinceSample = 0
    /\ stamps = 0
    /\ lastGap = 0
    /\ ticks = 0
    /\ begun = FALSE
    /\ written = {}
    /\ sinceStart = 0
    /\ startCap = SAMPLES_PER_PACKET * SAMPLE_INTERVAL_US

SpecTiming == InitTiming /\ [][NextFair]_vars

----------------------------------------------------------------------------
(* The encoding of one sample, over every pair of ADC readings *)

\* the first cycle of the HTTP sketch, the first wait of the loop just over
InitEncode ==
    /\ variant = "http"
    /\ shield = TRUE
    /\ pc = "stamp"
    /\ status = "WL_CONNECTED"
    /\ clock = SAMPLE_INTERVAL_US
    /\ previousMicros = 0
    /\ i = 0
    /\ val_signal = 0
    /\ val_ref = 0
    /\ packetBuffer = [k \in 0..(BufferSize - 1) |-> 0]
    /\ connOpen = FALSE
    /\ wire = <<>>
    /\ serial = <<>>
    /\ sentBody = <<>>
    /\ txResult = "none"
    /\ lastResult = "none"
    /\ cycle = <<>>
    /\ sinceAttempt = 0
    /\ attemptSamples = 0
    /\ connectCalls = 0
    /\ sendCalls = 0
    /\ connPackets = 0
    /\ sinceSample = SAMPLE_INTERVAL_US
    /\ stamps = 0
    /\ lastGap = 0
    /\ ticks = 1
    /\ begun = TRUE
    /\ written = {}
    /\ sinceStart = 0
    /\ startCap = 0

\* the first sample of that cycle, for every pair of readings
NextEncode ==
    /\ pc = "stamp"
    /\ i = 0
    /\ \E s \in ADCRange, r \in ADCRange : TakeSample(0, s, r)

SpecEncode == InitEncode /\ [][NextEncode]_vars

----------------------------------------------------------------------------
(* Properties *)

\* positions of the transmission phase
TxPositions == {"tx", "http_headers", "http_body", "http_stop",
                "udp_write", "udp_end"}

\* a receiver's reading of two bytes as little-endian signed 16-bit
DecodeLE16(lo, hi) ==
    LET u == lo + 256 * hi
    IN  IF u >= 32768 THEN u - 65536 ELSE u

\* a transmission attempt was made in this cycle
Attempted == connectCalls + sendCalls > 0

\* C1: a transmission attempt happens only when exactly SAMPLES_PER_PACKET
\* samples were stored since the previous attempt, and the body handed to the
\* transport is always 2 * SAMPLES_PER_PACKET bytes long; a buffer holding
\* fewer samples of the current cycle is never handed over.
C1_FullPacketsOnly ==
    /\ pc \in TxPositions => i = SAMPLES_PER_PACKET /\ Len(cycle) = SAMPLES_PER_PACKET
    /\ pc = "tx" /\ ~Attempted => sinceAttempt = SAMPLES_PER_PACKET
    /\ Attempted => attemptSamples = SAMPLES_PER_PACKET /\ sinceAttempt = 0
    /\ sentBody # <<>> => Len(sentBody) = 2 * SAMPLES_PER_PACKET
    /\ pc \in {"http_stop", "udp_end"} => Len(sentBody) = 2 * SAMPLES_PER_PACKET

\* a second packet has just been handed to the connection
C1_Witness ==
    /\ variant = "http"
    /\ pc = "http_stop"
    /\ lastResult # "none"
    /\ attemptSamples = SAMPLES_PER_PACKET
    /\ Len(sentBody) = 2 * SAMPLES_PER_PACKET

\* C2: the real time between two consecutive sample timestamps is never
\* below SAMPLE_INTERVAL_US, also when micros() wraps between them and
\* across the transmission between two packets.
C2_NeverEarly == stamps = 2 => lastGap >= SAMPLE_INTERVAL_US

\* a busy-wait has ended after the counter wrapped past the last sample's
\* timestamp, and that sample was itself taken a full interval after its
\* predecessor
C2_Witness ==
    /\ stamps = 2
    /\ pc = "stamp"
    /\ i >= 1
    /\ clock < previousMicros
    /\ lastGap >= SAMPLE_INTERVAL_US

\* C3: the two bytes stored for a sample, read as a little-endian signed
\* 16-bit integer, are signal - reference exactly, for all readings in
\* 0..1023; signal = 300, reference = 500 gives the bytes 0x38, 0xFF.
C3_RoundTrip ==
    i >= 1 =>
        /\ DecodeLE16(packetBuffer[2 * (i - 1)], packetBuffer[2 * (i - 1) + 1])
               = val_signal - val_ref
        /\ packetBuffer[2 * (i - 1)] \in 0..255
        /\ packetBuffer[2 * (i - 1) + 1] \in 0..255
        /\ (val_signal = 300 /\ val_ref = 500) =>
               /\ packetBuffer[2 * (i - 1)] = 56
               /\ packetBuffer[2 * (i - 1) + 1] = 255

\* the negative differential of the example has been stored
C3_Witness ==
    /\ i = 1
    /\ val_signal = 300
    /\ val_ref = 500
    /\ packetBuffer[0] = 56
    /\ packetBuffer[1] = 255

\* C4: the k-th sample of a cycle occupies bytes 2k (low) and 2k+1 (high) of
\* the transmitted body, so the body decodes to the cycle's samples in
\* order; readings 600/500 then 500/500 give a body starting 0x64 0 0 0.
C4_BodyInOrder ==
    pc \in {"http_stop", "udp_end"} =>
        /\ \A k \in 0..(SAMPLES_PER_PACKET - 1) :
               /\ sentBody[2 * k + 1] = cycle[k + 1] % 256
               /\ DecodeLE16(sentBody[2 * k + 1], sentBody[2 * k + 2]) = cycle[k + 1]
        /\ (cycle[1] = 100 /\ cycle[2] = 0) => SubSeq(sentBody, 1, 4) = <<100, 0, 0, 0>>

\* the datagram of the example cycle has been handed to Udp.write
C4_Witness ==
    /\ pc = "udp_end"
    /\ cycle[1] = 100
    /\ cycle[2] = 0
    /\ SubSeq(sentBody, 1, 4) = <<100, 0, 0, 0>>

\* positions of loop()
LoopPositions == {"loop", "wait", "stamp"} \cup TxPositions

\* how often a line was printed on Serial in this pass of loop()
Printed(line) == Cardinality({k \in 1..Len(serial) : serial[k] = line})

\* C5: HTTP sketch: when client.connect fails, exactly one notice is
\* printed for the packet, connect is not called again for it, nothing of the
\* packet is written, and the next cycle starts and runs as any other.
C5_ConnectFailureDropsPacket ==
    /\ [](txResult = "noconn" =>
            /\ variant = "http"
            /\ pc = "loop"
            /\ connectCalls = 1
            /\ Printed("Connection failed") = 1
            /\ ~connOpen)
    /\ [][txResult' = "noconn" /\ txResult # "noconn" =>
            /\ wire' = wire
            /\ sentBody' = sentBody
            /\ connPackets' = connPackets]_vars
    /\ [][txResult = "noconn" =>
            /\ pc' = "wait"
            /\ i' = 0
            /\ cycle' = <<>>
            /\ connectCalls' = 0]_vars
    /\ [](lastResult = "noconn" =>
            /\ pc \in {"wait", "stamp"} \cup TxPositions \cup {"loop"}
            /\ connectCalls <= 1
            /\ (pc \in TxPositions =>
                  ticks = SAMPLES_PER_PACKET /\ Len(cycle) = SAMPLES_PER_PACKET))

\* the cycle after a refused connection has sent its own packet
C5_Witness ==
    /\ lastResult = "noconn"
    /\ pc = "http_stop"
    /\ txResult = "ok"
    /\ connectCalls = 1

\* C6: UDP sketch: a failing beginPacket / write / endPacket is not seen by
\* the loop: nothing is printed, the send is not repeated, and the cycle
\* after it takes SAMPLES_PER_PACKET ticks and samples and sends once.
C6_SendFailureUnobserved ==
    /\ [](variant = "udp" =>
            /\ serial = <<>>
            /\ sendCalls <= 1
            /\ connectCalls = 0
            /\ (pc = "loop" /\ txResult # "none" => sendCalls = 1))
    /\ [][variant = "udp" /\ pc = "udp_end" => pc' = "loop"]_vars
    /\ [][variant = "udp" /\ pc = "loop" => pc' = "wait" /\ i' = 0]_vars
    /\ [](variant = "udp" /\ lastResult = "fail" =>
            /\ pc \in LoopPositions
            /\ (pc \in TxPositions =>
                  /\ ticks = SAMPLES_PER_PACKET
                  /\ Len(cycle) = SAMPLES_PER_PACKET
                  /\ i = SAMPLES_PER_PACKET)
            /\ (pc = "udp_end" =>
                  /\ sendCalls = 1
                  /\ Len(sentBody) = 2 * SAMPLES_PER_PACKET))

\* the cycle after a failed send has sent its own datagram
C6_Witness ==
    /\ variant = "udp"
    /\ lastResult = "fail"
    /\ pc = "udp_end"
    /\ sendCalls = 1
    /\ ticks = SAMPLES_PER_PACKET

\* C7: the loop has no error state: the transmission phase always returns
\* to the start of loop() and the index restarts at 0, after success and
\* after failure; when every call and wait returns, every full buffer is
\* followed by a new cycle and every new cycle by a transmission attempt.
C7_AlwaysBackToAcquiring ==
    /\ [][(pc \in LoopPositions) => (pc' \in LoopPositions)]_vars
    /\ [][(pc \in TxPositions) /\ (pc' \notin TxPositions) => pc' = "loop"]_vars
    /\ [][pc = "loop" => pc' = "wait" /\ i' = 0]_vars
    /\ (pc = "tx" ~> (pc = "wait" /\ i = 0))
    /\ ((pc = "wait" /\ i = 0) ~> Attempted)

\* acquisition has restarted after a refused connection
C7_Witness ==
    /\ lastResult = "noconn"
    /\ pc = "wait"
    /\ i = 0
    /\ ~Attempted

\* C8: HTTP sketch: every packet has a connection of its own, carrying one
\* request and closed before the next cycle; no connection is open while a
\* sample is taken, and none carries a second packet.
C8_OneConnectionPerPacket ==
    /\ pc \in {"setup", "halted", "wifi", "loop", "wait", "stamp", "tx"} => ~connOpen
    /\ connPackets <= 1
    /\ pc = "http_stop" => connOpen /\ connPackets = 1
    /\ connOpen =>
          /\ variant = "http"
          /\ pc \in {"http_headers", "http_body", "http_stop"}
          /\ connectCalls = 1

\* a sample is about to be taken after a packet was sent and its connection closed
C8_Witness ==
    /\ variant = "http"
    /\ pc = "stamp"
    /\ lastResult = "ok"
    /\ connPackets = 1
    /\ ~connOpen

\* a header block: request line first, the two required fields, one empty
\* line, which is last
HeaderBlock(h) ==
    /\ Len(h) >= 4
    /\ h[1].tag = "POST /api/data HTTP/1.1"
    /\ \E k \in 2..(Len(h) - 1) : h[k].tag = "Content-Type: application/octet-stream"
    /\ \E k \in 2..(Len(h) - 1) :
          h[k].tag = "Content-Length: " /\ h[k].len = 2 * SAMPLES_PER_PACKET
    /\ h[Len(h)].tag = ""
    /\ \A k \in 1..(Len(h) - 1) : h[k].tag \notin {"", "body"}

\* a whole request: a header block, then the body
WholeRequest(w) ==
    /\ Len(w) >= 5
    /\ HeaderBlock(SubSeq(w, 1, Len(w) - 1))
    /\ w[Len(w)].tag = "body"
    /\ w[Len(w)].len = 2 * SAMPLES_PER_PACKET
    /\ w[Len(w)].data = [k \in 1..(2 * SAMPLES_PER_PACKET) |-> packetBuffer[k - 1]]

\* C9: HTTP sketch: on a connection the request line and header fields come
\* first, then the empty line, then the body, then the close; Content-Length
\* is the number of body bytes, 2 * SAMPLES_PER_PACKET, and the body is the
\* content of packetBuffer.
C9_RequestLayout ==
    variant = "http" =>
        /\ pc = "http_headers" => wire = <<>>
        /\ pc = "http_body" => HeaderBlock(wire)
        /\ pc = "http_stop" => WholeRequest(wire)
        /\ (~connOpen /\ wire # <<>>) =>
              /\ HeaderBlock(SubSeq(wire, 1, Len(wire) - 1))
              /\ wire[Len(wire)].tag = "body"
              /\ wire[Len(wire)].len = 2 * SAMPLES_PER_PACKET
              /\ wire[Len(wire)].data = sentBody

\* the second request of a run is complete and the connection still open
C9_Witness ==
    /\ variant = "http"
    /\ pc = "http_stop"
    /\ lastResult # "none"
    /\ connOpen
    /\ WholeRequest(wire)

\* C10: with no shield at startup the device stays in setup for ever:
\* WiFi.begin is never called, no sample is taken, the buffer is never
\* written and nothing is transmitted.
C10_NoShieldHalts ==
    ~shield =>
        /\ pc \in {"setup", "halted"}
        /\ ~begun
        /\ status = "WL_IDLE_STATUS"
        /\ stamps = 0
        /\ ticks = 0
        /\ cycle = <<>>
        /\ \A k \in 0..(BufferSize - 1) : packetBuffer[k] = 0
        /\ sentBody = <<>>
        /\ wire = <<>>
        /\ connectCalls = 0
        /\ sendCalls = 0
        /\ ~connOpen

\* the device spins in while (true)
C10_Witness ==
    /\ ~shield
    /\ pc = "halted"

\* C11: at startup WiFi.begin is called again for as long as it has not
\* returned WL_CONNECTED, without any bound; nothing is sampled or sent
\* before an attempt has returned WL_CONNECTED, and once one has,
\* acquisition starts.
C11_AssociationBlocksAcquisition ==
    /\ [](status # "WL_CONNECTED" =>
            /\ pc \in {"setup", "halted", "wifi"}
            /\ stamps = 0
            /\ ticks = 0
            /\ cycle = <<>>
            /\ sentBody = <<>>
            /\ ~Attempted
            /\ ~connOpen)
    /\ [](pc \in LoopPositions => begun /\ status = "WL_CONNECTED")
    /\ [](pc = "wifi" /\ status # "WL_CONNECTED" =>
            ENABLED (\E res \in WifiResults : WifiAttempt(res)))
    /\ [][pc = "wifi" /\ status' # "WL_CONNECTED" => pc' = "wifi" /\ begun']_vars
    /\ [][pc = "wifi" /\ pc' # "wifi" => status = "WL_CONNECTED" /\ pc' = "loop"]_vars
    /\ (status = "WL_CONNECTED" ~> pc = "wait")

\* association has succeeded and the first wait of the first cycle is over
C11_Witness ==
    /\ status = "WL_CONNECTED"
    /\ begun
    /\ pc = "stamp"
    /\ stamps = 0

\* C14: the buffer cannot be overrun: the sample index stays in
\* 0..SAMPLES_PER_PACKET, every store to packetBuffer uses an index in
\* 0..2*SAMPLES_PER_PACKET-1 (2i and 2i+1 with i < SAMPLES_PER_PACKET), and
\* the index is 0 when a cycle starts.
C14_NoOverrun ==
    /\ i \in 0..SAMPLES_PER_PACKET
    /\ DOMAIN packetBuffer = 0..(2 * SAMPLES_PER_PACKET - 1)
    /\ written \subseteq 0..(2 * SAMPLES_PER_PACKET - 1)
    /\ pc = "stamp" => i < SAMPLES_PER_PACKET /\ 2 * i + 1 <= 2 * SAMPLES_PER_PACKET - 1
    /\ pc \in LoopPositions \ {"loop"} =>
          /\ i = Len(cycle)
          /\ written = 0..(2 * i - 1)
    /\ pc = "wait" /\ ticks = 0 => i = 0 /\ written = {}

\* the last store of a later cycle has been made, at the last two indices
C14_Witness ==
    /\ pc = "tx"
    /\ lastResult # "none"
    /\ i = SAMPLES_PER_PACKET
    /\ (2 * SAMPLES_PER_PACKET - 1) \in written
    /\ (2 * SAMPLES_PER_PACKET - 2) \in written

\* C15: the buffer is reused without being cleared, yet each of its bytes is
\* stored to in every cycle before the transport is called, so a body holds
\* only the samples of its own cycle, also after a dropped packet.
C15_NoStaleBytes ==
    /\ pc \in TxPositions =>
          /\ written = 0..(BufferSize - 1)
          /\ \A k \in 0..(SAMPLES_PER_PACKET - 1) :
                DecodeLE16(packetBuffer[2 * k], packetBuffer[2 * k + 1]) = cycle[k + 1]
    /\ pc \in {"http_stop", "udp_end"} =>
          \A b \in 1..Len(sentBody) :
              /\ (b - 1) \in written
              /\ sentBody[b] = packetBuffer[b - 1]

\* the cycle after a dropped packet has handed over a body of its own:
\* its first sample, -200, is not the zero the buffer started with
C15_Witness ==
    /\ lastResult = "noconn"
    /\ pc = "http_stop"
    /\ written = 0..(BufferSize - 1)
    /\ cycle[1] = -200
    /\ sentBody[1] = 56
    /\ sentBody[2] = 255

\* C12: while a transmission is in progress, from the store of the last
\* sample until the transport calls of the cycle have returned, no tick is
\* consumed, no sample is read and packetBuffer is not changed; the bytes the
\* transport gets are those the buffer held when it became full.
C12_TransmissionLeavesSamplingAlone ==
    /\ [][(pc \in TxPositions) =>
            /\ packetBuffer' = packetBuffer
            /\ written' = written
            /\ cycle' = cycle
            /\ ticks' = ticks
            /\ i' = i
            /\ val_signal' = val_signal
            /\ val_ref' = val_ref
            /\ previousMicros' = previousMicros
            /\ stamps' = stamps
            /\ (pc' \in TxPositions \cup {"loop"})]_vars
    /\ [](pc \in {"http_stop", "udp_end"} =>
            /\ Len(sentBody) = 2 * SAMPLES_PER_PACKET
            /\ \A b \in 1..(2 * SAMPLES_PER_PACKET) : sentBody[b] = packetBuffer[b - 1]
            /\ ticks = SAMPLES_PER_PACKET
            /\ Len(cycle) = SAMPLES_PER_PACKET)

\* a body has been written on the connection and the buffer still holds it
C12_Witness ==
    /\ variant = "http"
    /\ pc = "http_stop"
    /\ connOpen
    /\ ticks = SAMPLES_PER_PACKET
    /\ sentBody = [b \in 1..(2 * SAMPLES_PER_PACKET) |-> packetBuffer[b - 1]]
    /\ cycle[SAMPLES_PER_PACKET] = -200

\* C13: the baseline of the wait is never moved by a fixed increment: loop()
\* sets it to the clock it has just read when a cycle starts and again at
\* every tick, so no tick follows the previous one by less than the interval
\* however long the stall before it; the i-th sample of a cycle (i = 1..N)
\* is stamped no earlier than i intervals after the cycle started, and every
\* cycle that reaches the transport has taken exactly N samples, whatever
\* time passed before the cycle started.
C13_BaselineIsCurrentClock ==
    /\ [][(pc \in {"loop", "stamp"}) =>
            /\ previousMicros' = clock'
            /\ \E d \in Advances : clock' = ClockAfter(clock, d)]_vars
    /\ [][previousMicros' # previousMicros => pc \in {"loop", "stamp"}]_vars
    /\ [](pc \in LoopPositions => sinceStart >= i * SAMPLE_INTERVAL_US)
    /\ [](pc = "stamp" =>
            /\ sinceStart >= (i + 1) * SAMPLE_INTERVAL_US
            /\ sinceSample >= SAMPLE_INTERVAL_US)
    /\ [](pc \in {"wait", "stamp"} /\ i >= 1 => clock = (previousMicros + sinceSample) % Wrap
                                                 \/ sinceSample = SAMPLE_INTERVAL_US)
    /\ [](pc \in TxPositions =>
            /\ i = SAMPLES_PER_PACKET
            /\ ticks = SAMPLES_PER_PACKET
            /\ Len(cycle) = SAMPLES_PER_PACKET)
    /\ [][(pc = "loop") => pc' = "wait" /\ i' = 0 /\ ticks' = 0 /\ sinceStart' = 0]_vars

\* in a cycle after a transmission, the first sample has been stamped exactly
\* one interval after the cycle started and the wait for the second has begun
C13_Witness ==
    /\ startCap = SAMPLES_PER_PACKET * SAMPLE_INTERVAL_US
    /\ lastResult # "none"
    /\ pc = "wait"
    /\ i = 1
    /\ sinceStart = SAMPLE_INTERVAL_US
    /\ sinceSample = 0
    /\ clock = previousMicros

====
